---- MODULE Spec2Model ----
(***************************************************************************)
(* Shopping-catalog application (App.tsx and the products API client).     *)
(*                                                                         *)
(* State: the App component's React state (products, loading, cartItems),  *)
(* the localStorage entry under key "cart", and the startup product-list   *)
(* request in flight.  One action per handler; the save-cart effect runs   *)
(* in the same step as the state change that triggers it.                  *)
(*                                                                         *)
(* JavaScript numbers are modelled in fixed point: the integer x stands    *)
(* for the number x / One, so that non-integer quantities exist.           *)
(***************************************************************************)
EXTENDS Integers, Sequences, FiniteSets, TLC

\* ------------------------------------------------------------------------
\* Bounds
\* ------------------------------------------------------------------------

\* Largest quantity (in whole units) an entry is driven to.
MaxQty == 2

\* Most storage writes that fail in one behaviour.
MaxSaveFailures == 1

\* Largest number of create, update and delete requests sent in one run.
MaxRequests == 2

\* Largest number of times the details route is entered or its id changed.
MaxVisits == 2

\* ------------------------------------------------------------------------
\* Numbers and products
\* ------------------------------------------------------------------------

\* The number 1 in fixed point (x stands for x / One).
One == 2

IsInteger(x) == x % One = 0

P1 == [id |-> "p1", name |-> "Apple Watch", price |-> 30 * One]

P2 == [id |-> "p2", name |-> "Banana", price |-> 10 * One]

\* A product object without an id: rejected by handleAddToCart.
PInvalid == [id |-> "", name |-> "Banana", price |-> 10 * One]

\* The products the backend serves.
ServerProducts == <<P1, P2>>

\* Arguments the add-to-cart buttons can pass.
AddInputs == {P1, P2, PInvalid}

ProductIds == {"p1", "p2"}

\* Arguments of handleUpdateCartQuantity(productId, quantity): negative,
\* zero, a non-integer and whole numbers up to MaxQty.
QtyInputs == {-One, 0, One \div 2} \cup {k * One : k \in 1..MaxQty}

\* ------------------------------------------------------------------------
\* JSON text: a sequence of tokens (punctuation, string and number literals)
\* ------------------------------------------------------------------------

\* Strings that occur in literals.
JsonStrings == {"p1", "p2", "", "Apple Watch", "Banana",
                "id", "name", "price", "product", "quantity"}

\* Numbers that occur in literals.
JsonNumbers == (-One)..(30 * One)

Quote(s) == "\"" \o s \o "\""

\* Variant: the fraction is dropped from the literal.
NumToStrTrunc(x) ==
  LET a == IF x < 0 THEN -x ELSE x
  IN IF x < 0 THEN "-" \o ToString(a \div One) ELSE ToString(a \div One)

\* Number -> literal: sign, whole part, fraction.
NumToStr(x) ==
  LET a == IF x < 0 THEN -x ELSE x
      body == IF a % One = 0 THEN ToString(a \div One)
                             ELSE ToString(a \div One) \o ".5"
  IN IF x < 0 THEN "-" \o body ELSE body

IsStrTok(t) == \E s \in JsonStrings : Quote(s) = t

Unquote(t) == CHOOSE s \in JsonStrings : Quote(s) = t

IsNumTok(t) == \E x \in JsonNumbers : NumToStr(x) = t

StrToNum(t) == CHOOSE x \in JsonNumbers : NumToStr(x) = t

\* Key order of the objects the application serializes.
ProductKeys == <<"id", "name", "price">>

ItemKeys == <<"product", "quantity">>

RECURSIVE StringifyMembers(_, _, _)
StringifyProduct(p) ==
  <<"{">> \o StringifyMembers(p, ProductKeys, TRUE) \o <<"}">>

\* The "key":value members of object obj, for the keys it has, in key order.
StringifyMembers(obj, keys, first) ==
  IF keys = <<>> THEN <<>>
  ELSE LET k == Head(keys) IN
    IF k \notin DOMAIN obj THEN StringifyMembers(obj, Tail(keys), first)
    ELSE (IF first THEN <<>> ELSE <<",">>)
         \o <<Quote(k), ":">>
         \o (CASE k = "product" -> StringifyProduct(obj[k])
               [] k \in {"price", "quantity"} -> <<NumToStr(obj[k])>>
               [] OTHER -> <<Quote(obj[k])>>)
         \o StringifyMembers(obj, Tail(keys), FALSE)

StringifyItem(item) ==
  <<"{">> \o StringifyMembers(item, ItemKeys, TRUE) \o <<"}">>

RECURSIVE StringifyItems(_, _)
StringifyItems(items, first) ==
  IF items = <<>> THEN <<>>
  ELSE (IF first THEN <<>> ELSE <<",">>)
       \o StringifyItem(Head(items))
       \o StringifyItems(Tail(items), FALSE)

\* JSON.stringify(cartItems)
JSONstringify(items) == <<"[">> \o StringifyItems(items, TRUE) \o <<"]">>

ParseFail == [ok |-> FALSE, val |-> <<>>, next |-> 0]

ParseOk(v, n) == [ok |-> TRUE, val |-> v, next |-> n]

RECURSIVE ParseValue(_, _)
RECURSIVE ParseItems(_, _, _)
RECURSIVE ParseMembers(_, _, _)

\* Elements of an array after "[" or ",": value, then "," or "]".
ParseItems(toks, i, acc) ==
  LET r == ParseValue(toks, i) IN
  IF ~r.ok \/ r.next > Len(toks) THEN ParseFail
  ELSE IF toks[r.next] = "," THEN ParseItems(toks, r.next + 1, Append(acc, r.val))
  ELSE IF toks[r.next] = "]" THEN ParseOk(Append(acc, r.val), r.next + 1)
  ELSE ParseFail

\* Members of an object after "{" or ",": "key" : value, then "," or "}".
ParseMembers(toks, i, acc) ==
  IF i + 1 > Len(toks) \/ ~IsStrTok(toks[i]) \/ toks[i + 1] # ":" THEN ParseFail
  ELSE LET k == Unquote(toks[i])
           r == ParseValue(toks, i + 2)
           obj == [x \in (DOMAIN acc) \cup {k} |-> IF x = k THEN r.val ELSE acc[x]]
       IN
    IF ~r.ok \/ r.next > Len(toks) THEN ParseFail
    ELSE IF toks[r.next] = "," THEN ParseMembers(toks, r.next + 1, obj)
    ELSE IF toks[r.next] = "}" THEN ParseOk(obj, r.next + 1)
    ELSE ParseFail

\* One JSON value starting at token i.
ParseValue(toks, i) ==
  IF i > Len(toks) THEN ParseFail
  ELSE LET t == toks[i] IN
    IF t = "[" THEN
      IF i + 1 <= Len(toks) /\ toks[i + 1] = "]" THEN ParseOk(<<>>, i + 2)
      ELSE ParseItems(toks, i + 1, <<>>)
    ELSE IF t = "{" THEN
      IF i + 1 <= Len(toks) /\ toks[i + 1] = "}" THEN ParseOk(<<>>, i + 2)
      ELSE ParseMembers(toks, i + 1, <<>>)
    ELSE IF IsStrTok(t) THEN ParseOk(Unquote(t), i + 1)
    ELSE IF IsNumTok(t) THEN ParseOk(StrToNum(t), i + 1)
    ELSE ParseFail

\* JSON.parse(text): ok = FALSE stands for the SyntaxError it throws.
JSONparse(text) ==
  LET r == ParseValue(text, 1) IN
  IF r.ok /\ r.next = Len(text) + 1 THEN [ok |-> TRUE, val |-> r.val]
  ELSE [ok |-> FALSE, val |-> <<>>]

\* ------------------------------------------------------------------------
\* localStorage entry under key "cart"
\* ------------------------------------------------------------------------

\* getItem returns null: nothing stored.
NoItem == [present |-> FALSE, text |-> <<>>]

StoredItem(text) == [present |-> TRUE, text |-> text]

\* Lazy initializer of the cartItems state: saved ? JSON.parse(saved) : [],
\* with the catch branch alerting and returning [].
InitialCartItems(saved) ==
  IF ~(saved.present /\ saved.text # <<>>) THEN [cart |-> <<>>, alerts |-> {}]
  ELSE LET r == JSONparse(saved.text) IN
    IF r.ok THEN [cart |-> r.val, alerts |-> {}]
    ELSE [cart |-> <<>>, alerts |-> {"cartLoadFailed"}]

\* Variant: an empty cart is not written.
SaveCartEffectSkipEmpty(stored, items, ok) ==
  IF ok /\ items # <<>> THEN [stored |-> StoredItem(JSONstringify(items)), alerts |-> {}]
  ELSE IF ok THEN [stored |-> stored, alerts |-> {}]
  ELSE [stored |-> stored, alerts |-> {"cartSaveFailed"}]

\* Variant: a failed write is swallowed without an alert.
SaveCartEffectSilent(stored, items, ok) ==
  IF ok THEN [stored |-> StoredItem(JSONstringify(items)), alerts |-> {}]
  ELSE [stored |-> stored, alerts |-> {}]

\* Save-cart effect: setItem("cart", JSON.stringify(cartItems)); ok = FALSE
\* stands for setItem throwing (storage blocked or full).
SaveCartEffect(stored, items, ok) ==
  IF ok THEN [stored |-> StoredItem(JSONstringify(items)), alerts |-> {}]
  ELSE [stored |-> stored, alerts |-> {"cartSaveFailed"}]

\* ------------------------------------------------------------------------
\* Cart state updaters (the functions passed to setCartItems)
\* ------------------------------------------------------------------------

\* prev.find(...) found an entry
Existing(prev, id) == \E i \in DOMAIN prev : prev[i].product.id = id

\* Variant: no lookup, the product is always appended.
AddToCartAlwaysAppend(prev, product) ==
  Append(prev, [product |-> product, quantity |-> One])

\* Variant: the lookup only inspects the first entry.
AddToCartFirstOnly(prev, product) ==
  IF prev # <<>> /\ prev[1].product.id = product.id
  THEN [i \in DOMAIN prev |->
          IF prev[i].product.id = product.id
          THEN [prev[i] EXCEPT !.quantity = @ + One]
          ELSE prev[i]]
  ELSE Append(prev, [product |-> product, quantity |-> One])

\* Variant: a new entry starts at quantity 0.
AddToCartQtyZero(prev, product) ==
  IF Existing(prev, product.id)
  THEN [i \in DOMAIN prev |->
          IF prev[i].product.id = product.id
          THEN [prev[i] EXCEPT !.quantity = @ + One]
          ELSE prev[i]]
  ELSE Append(prev, [product |-> product, quantity |-> 0])

\* Variant: an existing entry also takes the product that was passed.
AddToCartRefresh(prev, product) ==
  IF Existing(prev, product.id)
  THEN [i \in DOMAIN prev |->
          IF prev[i].product.id = product.id
          THEN [product |-> product, quantity |-> prev[i].quantity + One]
          ELSE prev[i]]
  ELSE Append(prev, [product |-> product, quantity |-> One])

AddToCart(prev, product) ==
  IF Existing(prev, product.id)
  THEN [i \in DOMAIN prev |->
          IF prev[i].product.id = product.id
          THEN [prev[i] EXCEPT !.quantity = @ + One]
          ELSE prev[i]]
  ELSE Append(prev, [product |-> product, quantity |-> One])

\* Variant: the first entry is dropped, whatever its id.
RemoveFromCartFirst(prev, productId) ==
  IF prev = <<>> THEN <<>> ELSE Tail(prev)

RemoveFromCart(prev, productId) ==
  SelectSeq(prev, LAMBDA item : item.product.id # productId)

\* Variant: only negative quantities remove (quantity < 0).
UpdateCartQuantityStrict(prev, productId, quantity) ==
  IF quantity < 0
  THEN SelectSeq(prev, LAMBDA item : item.product.id # productId)
  ELSE [i \in DOMAIN prev |->
          IF prev[i].product.id = productId
          THEN [prev[i] EXCEPT !.quantity = quantity]
          ELSE prev[i]]

\* Variant: the updated entry is moved to the end of the list.
UpdateCartQuantityMove(prev, productId, quantity) ==
  IF quantity <= 0
  THEN SelectSeq(prev, LAMBDA item : item.product.id # productId)
  ELSE SelectSeq(prev, LAMBDA item : item.product.id # productId) \o
       [i \in DOMAIN SelectSeq(prev, LAMBDA item : item.product.id = productId)
          |-> [SelectSeq(prev, LAMBDA item : item.product.id = productId)[i]
                 EXCEPT !.quantity = quantity]]

UpdateCartQuantity(prev, productId, quantity) ==
  IF quantity <= 0
  THEN SelectSeq(prev, LAMBDA item : item.product.id # productId)
  ELSE [i \in DOMAIN prev |->
          IF prev[i].product.id = productId
          THEN [prev[i] EXCEPT !.quantity = quantity]
          ELSE prev[i]]

\* Variant: only the first entry is dropped.
ClearCartFirstOnly(prev) == IF prev = <<>> THEN <<>> ELSE Tail(prev)

ClearCart(prev) == <<>>

\* ------------------------------------------------------------------------
\* Products API client
\* ------------------------------------------------------------------------

\* Product lists the backend can answer the list request with.
ServerLists == {ServerProducts, <<>>}

\* Variant: a failed request is re-thrown to the caller, as in the other calls.
GetProductsRethrow(ok, data) ==
  IF ok THEN [threw |-> FALSE, data |-> data, alerts |-> {}]
  ELSE [threw |-> TRUE, data |-> <<>>, alerts |-> {"listFetchFailed"}]

\* getProducts(): the decoded payload, or on failure an alert and [].
GetProducts(ok, data) ==
  IF ok THEN [threw |-> FALSE, data |-> data, alerts |-> {}]
  ELSE [threw |-> FALSE, data |-> <<>>, alerts |-> {"listFetchFailed"}]

\* getProduct(): the product the backend returns; on failure an alert and
\* the error is thrown again to the caller.
GetProduct(ok, data) ==
  IF ok THEN [threw |-> FALSE, data |-> data, alerts |-> {}]
  ELSE [threw |-> TRUE, data |-> data, alerts |-> {"productFetchFailed"}]

\* Variant: the client reports the failure and returns what it was given.
CreateProductSwallow(ok, data) ==
  IF ok THEN [threw |-> FALSE, data |-> data, alerts |-> {}]
  ELSE [threw |-> FALSE, data |-> data, alerts |-> {"createFailed"}]

\* createProduct(): the product the backend returns; on failure an alert and
\* the error is thrown again to the caller.
CreateProduct(ok, data) ==
  IF ok THEN [threw |-> FALSE, data |-> data, alerts |-> {}]
  ELSE [threw |-> TRUE, data |-> data, alerts |-> {"createFailed"}]

\* updateProduct(): as createProduct, for the PUT request.
UpdateProduct(ok, data) ==
  IF ok THEN [threw |-> FALSE, data |-> data, alerts |-> {}]
  ELSE [threw |-> TRUE, data |-> data, alerts |-> {"updateFailed"}]

\* deleteProduct(): resolves with nothing; on failure an alert and a throw.
DeleteProduct(ok, data) ==
  IF ok THEN [threw |-> FALSE, data |-> data, alerts |-> {}]
  ELSE [threw |-> TRUE, data |-> data, alerts |-> {"deleteFailed"}]

\* ------------------------------------------------------------------------
\* The catalog handlers of App, from the point where the awaited call
\* settles. `closure` is the value of `products` in the render that created
\* the handler: the list the handler computes the next catalog from. r is
\* the settled call. set: whether setProducts ran; threw: whether an error
\* leaves the handler.
\* ------------------------------------------------------------------------

\* Variant: the created product is put first.
HandleCreateProductPrepend(closure, r) ==
  IF r.threw
  THEN [set |-> FALSE, products |-> closure, threw |-> FALSE,
        alerts |-> r.alerts \cup {"handleCreateFailed"}]
  ELSE [set |-> TRUE, products |-> <<r.data>> \o closure, threw |-> FALSE,
        alerts |-> r.alerts]

HandleCreateProduct(closure, r) ==
  IF r.threw
  THEN [set |-> FALSE, products |-> closure, threw |-> FALSE,
        alerts |-> r.alerts \cup {"handleCreateFailed"}]
  ELSE [set |-> TRUE, products |-> Append(closure, r.data), threw |-> FALSE,
        alerts |-> r.alerts]

\* Variant: the response is dropped and the list is set to what it was.
HandleUpdateProductIgnore(closure, r) ==
  IF r.threw
  THEN [set |-> FALSE, products |-> closure, threw |-> FALSE,
        alerts |-> r.alerts \cup {"handleUpdateFailed"}]
  ELSE [set |-> TRUE, products |-> closure, threw |-> FALSE,
        alerts |-> r.alerts]

\* Variant: the saved product is added to the list instead of replacing.
HandleUpdateProductAppend(closure, r) ==
  IF r.threw
  THEN [set |-> FALSE, products |-> closure, threw |-> FALSE,
        alerts |-> r.alerts \cup {"handleUpdateFailed"}]
  ELSE [set |-> TRUE, products |-> Append(closure, r.data), threw |-> FALSE,
        alerts |-> r.alerts]

HandleUpdateProduct(closure, r) ==
  IF r.threw
  THEN [set |-> FALSE, products |-> closure, threw |-> FALSE,
        alerts |-> r.alerts \cup {"handleUpdateFailed"}]
  ELSE [set |-> TRUE, threw |-> FALSE, alerts |-> r.alerts,
        products |-> [i \in DOMAIN closure |->
                        IF closure[i].id = r.data.id THEN r.data
                        ELSE closure[i]]]

HandleDeleteProduct(closure, r) ==
  LET Keep(p) == p.id # r.data.id IN
  IF r.threw
  THEN [set |-> FALSE, products |-> closure, threw |-> FALSE,
        alerts |-> r.alerts \cup {"handleDeleteFailed"}]
  ELSE [set |-> TRUE, products |-> SelectSeq(closure, Keep), threw |-> FALSE,
        alerts |-> r.alerts]

\* ------------------------------------------------------------------------
\* The backend: the remote product list and what each request does to it.
\* ------------------------------------------------------------------------

\* The product a submitted create form carries, and the prices an edit form
\* is submitted with.
NewProduct == [id |-> "", name |-> "Cherry", price |-> 20 * One]

EditPrices == {5 * One, 15 * One}

\* The id the backend gives the product created by the seq-th request.
FreshId(seq) == "n" \o ToString(seq)

HasId(list, id) == \E i \in DOMAIN list : list[i].id = id

RemoteCreate(list, product) == Append(list, product)

RemoteUpdate(list, product) ==
  [i \in DOMAIN list |-> IF list[i].id = product.id THEN product ELSE list[i]]

RemoteDelete(list, id) ==
  LET Keep(p) == p.id # id IN SelectSeq(list, Keep)

\* ------------------------------------------------------------------------
\* ProductsPage: the search, price-range and sort stages of a render.
\* Strings are compared through their characters.
\* ------------------------------------------------------------------------

\* Longest catalog the page is given.
MaxLen == 3

P3 == [id |-> "p3", name |-> "banana", price |-> 10 * One]

P4 == [id |-> "p4", name |-> "Banana", price |-> 20 * One]

PagePool == {P1, P2, P3, P4}

\* The values typed into the search box and the two number boxes.
SearchInputs == {"", "app", "APP", "an", "nab"}

PriceInputs == {""} \cup {NumToStr(x) : x \in {10 * One, 15 * One, 30 * One}}

\* The values of the options of the sort <select>.
SortOptions == {"", "price-asc", "price-desc", "name-asc", "name-desc"}

Chars(str) ==
  CASE str = "" -> <<>>
    [] str = "app" -> <<"a", "p", "p">>
    [] str = "APP" -> <<"A", "P", "P">>
    [] str = "an" -> <<"a", "n">>
    [] str = "nab" -> <<"n", "a", "b">>
    [] str = "Apple Watch" ->
         <<"A", "p", "p", "l", "e", " ", "W", "a", "t", "c", "h">>
    [] str = "Banana" -> <<"B", "a", "n", "a", "n", "a">>
    [] str = "banana" -> <<"b", "a", "n", "a", "n", "a">>
    [] str = "Cherry" -> <<"C", "h", "e", "r", "r", "y">>

UpperCase == <<"A", "B", "C", "D", "E", "F", "G", "H", "I", "J", "K", "L", "M",
               "N", "O", "P", "Q", "R", "S", "T", "U", "V", "W", "X", "Y", "Z">>

LowerCase == <<"a", "b", "c", "d", "e", "f", "g", "h", "i", "j", "k", "l", "m",
               "n", "o", "p", "q", "r", "s", "t", "u", "v", "w", "x", "y", "z">>

IsUpper(c) == \E i \in DOMAIN UpperCase : UpperCase[i] = c

\* String.prototype.toLowerCase, on a sequence of characters.
ToLowerCase(cs) ==
  [k \in DOMAIN cs |->
     IF IsUpper(cs[k])
     THEN LowerCase[CHOOSE i \in DOMAIN UpperCase : UpperCase[i] = cs[k]]
     ELSE cs[k]]

\* String.prototype.includes, on sequences of characters.
Includes(cs, q) ==
  \E start \in 1..(Len(cs) - Len(q) + 1) :
    SubSeq(cs, start, start + Len(q) - 1) = q

\* Number(value) for the value of a number box that is not empty.
Number(value) == StrToNum(value)

\* Collation rank of a character: the space, then the letters, the two
\* cases of a letter together.
Rank(c) ==
  IF c = " " THEN 0
  ELSE CHOOSE i \in DOMAIN LowerCase : LowerCase[i] = ToLowerCase(<<c>>)[1]

Sign(x) == IF x < 0 THEN -1 ELSE IF x > 0 THEN 1 ELSE 0

\* String.prototype.localeCompare: by letters first (a prefix before its
\* extensions); names with the same letters by case, lower case first.
RECURSIVE ComparePrimary(_, _)
ComparePrimary(a, b) ==
  IF a = <<>> \/ b = <<>> THEN Sign(Len(a) - Len(b))
  ELSE IF Rank(Head(a)) # Rank(Head(b))
       THEN Sign(Rank(Head(a)) - Rank(Head(b)))
       ELSE ComparePrimary(Tail(a), Tail(b))

RECURSIVE CompareCase(_, _)
CompareCase(a, b) ==
  IF a = <<>> \/ b = <<>> THEN 0
  ELSE IF Head(a) = Head(b) THEN CompareCase(Tail(a), Tail(b))
       ELSE IF IsUpper(Head(a)) THEN 1 ELSE -1

LocaleCompare(a, b) ==
  LET primary == ComparePrimary(Chars(a), Chars(b)) IN
  IF primary # 0 THEN primary ELSE CompareCase(Chars(a), Chars(b))

\* Variant: both price options compare a to b.
CompareAscending(sortOption, a, b) ==
  CASE sortOption = "price-asc" -> a.price - b.price
    [] sortOption = "price-desc" -> a.price - b.price
    [] sortOption = "name-asc" -> LocaleCompare(a.name, b.name)
    [] sortOption = "name-desc" -> LocaleCompare(b.name, a.name)

\* The comparator each sort option passes to sort().
Compare(sortOption, a, b) ==
  CASE sortOption = "price-asc" -> a.price - b.price
    [] sortOption = "price-desc" -> b.price - a.price
    [] sortOption = "name-asc" -> LocaleCompare(a.name, b.name)
    [] sortOption = "name-desc" -> LocaleCompare(b.name, a.name)

\* Array.prototype.sort with that comparator: a stable sort (elements that
\* compare equal keep their order).
RECURSIVE ArraySort(_, _)
ArraySort(list, sortOption) ==
  IF list = <<>> THEN <<>>
  ELSE LET sorted == ArraySort(SubSeq(list, 1, Len(list) - 1), sortOption)
           x == list[Len(list)]
           k == Cardinality({i \in DOMAIN sorted :
                               Compare(sortOption, sorted[i], x) <= 0})
       IN SubSeq(sorted, 1, k) \o <<x>> \o SubSeq(sorted, k + 1, Len(sorted))

\* Variant: the query is compared as typed.
SearchFilterAsTyped(list, search) ==
  LET Keep(p) == Includes(ToLowerCase(Chars(p.name)), Chars(search))
  IN SelectSeq(list, Keep)

\* 1. Search filter.
SearchFilter(list, search) ==
  LET Keep(p) == Includes(ToLowerCase(Chars(p.name)),
                          ToLowerCase(Chars(search)))
  IN SelectSeq(list, Keep)

\* Variant: a price equal to a bound is outside the range.
PriceFilterExclusive(list, minPrice, maxPrice) ==
  LET Keep(p) ==
        LET meetsMin == minPrice = "" \/ p.price > Number(minPrice)
            meetsMax == maxPrice = "" \/ p.price < Number(maxPrice)
        IN meetsMin /\ meetsMax
  IN SelectSeq(list, Keep)

\* 2. Price range filter.
PriceFilter(list, minPrice, maxPrice) ==
  LET Keep(p) ==
        LET meetsMin == minPrice = "" \/ p.price >= Number(minPrice)
            meetsMax == maxPrice = "" \/ p.price <= Number(maxPrice)
        IN meetsMin /\ meetsMax
  IN SelectSeq(list, Keep)

\* Variant: without a named option the list is sorted by name.
SortProductsByDefault(list, sortOption) ==
  IF sortOption \in {"price-asc", "price-desc", "name-asc", "name-desc"}
  THEN ArraySort(list, sortOption)
  ELSE ArraySort(list, "name-asc")

\* 3. Sorting.
SortProducts(list, sortOption) ==
  IF sortOption \in {"price-asc", "price-desc", "name-asc", "name-desc"}
  THEN ArraySort(list, sortOption)
  ELSE list

\* The list a render of the page shows.
FilteredProducts(list, search, minPrice, maxPrice, sortOption) ==
  SortProducts(PriceFilter(SearchFilter(list, search), minPrice, maxPrice),
               sortOption)

\* ------------------------------------------------------------------------
\* State
\* ------------------------------------------------------------------------

VARIABLES
  products,      \* App state: the catalog list
  loading,       \* App state: the loading flag
  cartItems,     \* App state: the cart list
  localStorage,  \* the stored entry under key "cart"
  fetch,         \* startup list request: "pending", "ok" or "failed"
  saved,         \* what getItem("cart") returned at start (until the next step)
  saveOk,        \* whether the last run of the save-cart effect wrote
  saveFailures,  \* number of storage writes that have failed
  alerts,        \* alerts raised by the last step
  wholeInputs,   \* history: every setQuantity so far was given an integer
  lastOp,        \* the last handler run and its arguments
  remote,        \* the backend's product list
  requests,      \* create, update and delete calls awaiting their response
  calls,         \* number of such calls made so far
  hist,          \* history: failed (a request failed), early (a call was made
                 \* before the startup list arrived), uncaught (an error left
                 \* a catalog handler)
  search,        \* ProductsPage state: the search box
  sortOption,    \* ProductsPage state: the selected sort option
  minPrice,      \* ProductsPage state: the minimum-price box
  maxPrice,      \* ProductsPage state: the maximum-price box
  filteredProducts, \* the list shown by the last render of ProductsPage
  route,         \* the path of the route the location matches
  routeId,       \* its :id parameter ("" when it has none)
  detailsProduct,  \* ProductDetails state: <<>> (null) or <<the product>>
  detailsLoading,  \* ProductDetails state: the loading flag
  gets,          \* getProduct calls of ProductDetails awaiting their response
  visits         \* number of times the details route was entered or changed

catalogVars == <<remote, requests, calls, hist>>

pageVars == <<search, sortOption, minPrice, maxPrice, filteredProducts>>

detailsVars == <<detailsProduct, detailsLoading, gets, visits>>

routeVars == <<route, routeId>>

vars == <<products, loading, cartItems, localStorage, fetch, saved, saveOk,
          saveFailures, alerts, wholeInputs, lastOp, remote, requests, calls,
          hist, search, sortOption, minPrice, maxPrice, filteredProducts,
          route, routeId, detailsProduct, detailsLoading, gets, visits>>

NoHist == [failed |-> FALSE, early |-> FALSE, uncaught |-> FALSE]

\* len: the length of the cart list before the handler ran.
Op(name, id, n, len) == [op |-> name, id |-> id, n |-> n, len |-> len]

\* Mounting App on a browser whose storage holds `stored`: the initializers
\* run, then both effects (the list request is sent, the cart is saved).
Mount(stored, ok) ==
  LET init == InitialCartItems(stored)
      save == SaveCartEffect(stored, init.cart, ok)
  IN /\ products = <<>>
     /\ loading = TRUE
     /\ cartItems = init.cart
     /\ localStorage = save.stored
     /\ fetch = "pending"
     /\ saved = stored
     /\ saveOk = ok
     /\ saveFailures = (IF ok THEN 0 ELSE 1)
     /\ alerts = init.alerts \cup save.alerts
     /\ wholeInputs = TRUE
     /\ lastOp = Op("mount", "", 0, 0)
     /\ requests = {}
     /\ calls = 0
     /\ hist = NoHist
     /\ search = ""
     /\ sortOption = ""
     /\ minPrice = ""
     /\ maxPrice = ""
     /\ filteredProducts = <<>>
     /\ route = "/products"
     /\ routeId = ""
     /\ detailsProduct = <<>>
     /\ detailsLoading = FALSE
     /\ gets = {}
     /\ visits = 0

\* A first start, on a backend that holds the two products.
Init ==
  /\ remote = ServerProducts
  /\ \E ok \in BOOLEAN : Mount(NoItem, ok)

\* A state change of cartItems and the save-cart effect it triggers.
SetCartItems(next, ok) ==
  LET save == SaveCartEffect(localStorage, next, ok) IN
  /\ ok \/ saveFailures < MaxSaveFailures
  /\ saveFailures' = (IF ok THEN saveFailures ELSE saveFailures + 1)
  /\ saved' = NoItem
  /\ cartItems' = next
  /\ localStorage' = save.stored
  /\ saveOk' = ok
  /\ alerts' = save.alerts

\* Quantity the cart holds for an id (0 when absent), to cap the model.
QtyCap(prev, id) ==
  IF Existing(prev, id)
  THEN (CHOOSE item \in {prev[i] : i \in DOMAIN prev} : item.product.id = id).quantity
  ELSE 0

handleAddToCart ==
  \E product \in AddInputs, ok \in BOOLEAN :
    /\ QtyCap(cartItems, product.id) + One <= MaxQty * One
    /\ IF product.id = ""
       THEN /\ alerts' = {"addToCartInvalid"}
            /\ lastOp' = Op("addInvalid", product.id, 0, Len(cartItems))
            /\ saved' = NoItem
            /\ UNCHANGED <<cartItems, localStorage, saveOk, saveFailures>>
       ELSE /\ SetCartItems(AddToCart(cartItems, product), ok)
            /\ lastOp' = Op("add", product.id, 0, Len(cartItems))
    /\ UNCHANGED <<products, loading, fetch, wholeInputs, catalogVars,
                   pageVars, routeVars, detailsVars>>

handleRemoveFromCart ==
  \E productId \in ProductIds, ok \in BOOLEAN :
    /\ SetCartItems(RemoveFromCart(cartItems, productId), ok)
    /\ lastOp' = Op("remove", productId, 0, Len(cartItems))
    /\ UNCHANGED <<products, loading, fetch, wholeInputs, catalogVars,
                   pageVars, routeVars, detailsVars>>

handleUpdateCartQuantity ==
  \E productId \in ProductIds, quantity \in QtyInputs, ok \in BOOLEAN :
    /\ SetCartItems(UpdateCartQuantity(cartItems, productId, quantity), ok)
    /\ lastOp' = Op("setQuantity", productId, quantity, Len(cartItems))
    /\ wholeInputs' = (wholeInputs /\ IsInteger(quantity))
    /\ UNCHANGED <<products, loading, fetch, catalogVars, pageVars, routeVars,
                 detailsVars>>

handleClearCart ==
  \E ok \in BOOLEAN :
    /\ SetCartItems(ClearCart(cartItems), ok)
    /\ lastOp' = Op("clear", "", 0, Len(cartItems))
    /\ UNCHANGED <<products, loading, fetch, wholeInputs, catalogVars,
                   pageVars, routeVars, detailsVars>>

\* The list request completes and load() resumes after its await; the
\* response carries the backend's list.
load ==
  \E ok \in BOOLEAN :
    LET r == GetProducts(ok, remote) IN
    /\ fetch = "pending"
    /\ fetch' = IF ok THEN "ok" ELSE "failed"
    /\ products' = IF r.threw THEN products ELSE r.data
    /\ alerts' = r.alerts \cup (IF r.threw THEN {"productsLoadFailed"} ELSE {})
    /\ loading' = FALSE
    /\ lastOp' = Op("load", "", 0, Len(cartItems))
    /\ saved' = NoItem
    /\ hist' = [hist EXCEPT !.failed = @ \/ ~ok]
    /\ UNCHANGED <<cartItems, localStorage, saveOk, saveFailures, wholeInputs,
                   remote, requests, calls, pageVars, routeVars,
                 detailsVars>>

\* The page is reloaded: App is mounted again on the current storage.
Restart ==
  \E ok \in BOOLEAN :
    LET init == InitialCartItems(localStorage)
        save == SaveCartEffect(localStorage, init.cart, ok)
    IN /\ ok \/ saveFailures < MaxSaveFailures
       /\ saveFailures' = (IF ok THEN saveFailures ELSE saveFailures + 1)
       /\ products' = <<>>
       /\ loading' = TRUE
       /\ cartItems' = init.cart
       /\ localStorage' = save.stored
       /\ fetch' = "pending"
       /\ saved' = localStorage
       /\ saveOk' = ok
       /\ alerts' = init.alerts \cup save.alerts
       /\ lastOp' = Op("mount", "", 0, Len(cartItems))
       /\ requests' = {}
       /\ hist' = NoHist
       /\ search' = ""
       /\ sortOption' = ""
       /\ minPrice' = ""
       /\ maxPrice' = ""
       /\ filteredProducts' = <<>>
       /\ UNCHANGED <<routeVars, detailsVars>>
       /\ UNCHANGED <<wholeInputs, remote, calls>>

Next ==
  \/ handleAddToCart
  \/ handleRemoveFromCart
  \/ handleUpdateCartQuantity
  \/ handleClearCart
  \/ load
  \/ Restart

Spec == Init /\ [][Next]_vars

\* The list request settles: the browser answers or fails every request.
FairSpec == Spec /\ WF_vars(load)

\* Values found under key "cart" at the first start when the entry was not
\* written by this application: truncated text, and a list whose element
\* lacks the product's name and price.
TruncatedText == <<"[", "{">>

NotACartList ==
  <<"[", "{", Quote("product"), ":", "{", Quote("id"), ":", Quote("p1"), "}",
    ",", Quote("quantity"), ":", NumToStr(One), "}", "]">>

StoredAtStart ==
  {NoItem, StoredItem(TruncatedText), StoredItem(NotACartList)}

InitCorrupt ==
  /\ remote = ServerProducts
  /\ \E stored \in StoredAtStart, ok \in BOOLEAN : Mount(stored, ok)

SpecCorrupt == InitCorrupt /\ [][Next]_vars

\* ------------------------------------------------------------------------
\* Catalog edits. Each handler runs in two steps: up to its await (the
\* request is sent, and the backend applies it), and from the await on (the
\* response has arrived). Between the two any other step may run.
\* ------------------------------------------------------------------------

\* alone: no other request is in flight between this call and its response.
Request(seq, kind, data, closure, ok, alone) ==
  [seq |-> seq, kind |-> kind, data |-> data, closure |-> closure, ok |-> ok,
   alone |-> alone]

Send(kind, data, ok) ==
  /\ calls < MaxRequests
  /\ calls' = calls + 1
  /\ requests' = {[r EXCEPT !.alone = FALSE] : r \in requests} \cup
                  {Request(calls + 1, kind, data, products, ok,
                           requests = {} /\ fetch # "pending")}
  /\ hist' = [hist EXCEPT !.early = @ \/ fetch = "pending",
                          !.failed = @ \/ ~ok]
  /\ lastOp' = Op(kind \o "Called", data.id, calls + 1, Len(cartItems))
  /\ alerts' = {}
  /\ saved' = NoItem
  /\ UNCHANGED <<products, loading, cartItems, localStorage, fetch, saveOk,
                 saveFailures, wholeInputs, pageVars, detailsVars>>

\* Variant: a handler that changed the catalog also drops the product of
\* the request from the cart.
SettlePurge(r, h) ==
  /\ requests' = requests \ {r}
  /\ products' = IF h.set THEN h.products ELSE products
  /\ cartItems' = IF h.set THEN RemoveFromCart(cartItems, r.data.id)
                  ELSE cartItems
  /\ alerts' = h.alerts
  /\ hist' = [hist EXCEPT !.uncaught = @ \/ h.threw]
  /\ lastOp' = Op(r.kind \o "Landed", r.data.id, r.seq, Len(cartItems))
  /\ saved' = NoItem
  /\ UNCHANGED <<loading, localStorage, fetch, saveOk, saveFailures,
                 wholeInputs, remote, calls, pageVars, routeVars,
                 detailsVars>>

Settle(r, h) ==
  /\ requests' = requests \ {r}
  /\ products' = IF h.set THEN h.products ELSE products
  /\ alerts' = h.alerts
  /\ hist' = [hist EXCEPT !.uncaught = @ \/ h.threw]
  /\ lastOp' = Op(r.kind \o "Landed", r.data.id, r.seq, Len(cartItems))
  /\ saved' = NoItem
  /\ UNCHANGED <<loading, cartItems, localStorage, fetch, saveOk,
                 saveFailures, wholeInputs, remote, calls, pageVars, routeVars,
                 detailsVars>>

\* A link or a history entry is followed to the product list, the create
\* form or the edit form of a product that is or was in the catalog.
EditIds == ProductIds \cup {FreshId(seq) : seq \in 1..MaxRequests}

Locations ==
  {[path |-> "/products", id |-> ""], [path |-> "/products/new", id |-> ""]}
    \cup {[path |-> "/products/:id/edit", id |-> id] : id \in EditIds}

navigateTo(to) ==
  /\ <<route, routeId>> # <<to.path, to.id>>
  /\ route' = to.path
  /\ routeId' = to.id
  /\ lastOp' = Op("navigate", to.id, 0, Len(cartItems))
  /\ alerts' = {}
  /\ saved' = NoItem
  /\ UNCHANGED <<products, loading, cartItems, localStorage, fetch, saveOk,
                 saveFailures, wholeInputs, catalogVars, pageVars,
                 detailsVars>>

navigate == \E to \in Locations : navigateTo(to)

\* What the edit page renders for the id of its location.
EditView == IF HasId(products, routeId) THEN "form" ELSE "notFound"

\* The form of the create page is submitted: handleCreate of the page calls
\* handleCreateProduct, which runs up to its await, and then navigates.
handleCreateProduct ==
  \E ok \in BOOLEAN :
    LET created == [NewProduct EXCEPT !.id = FreshId(calls + 1)] IN
    /\ route = "/products/new"
    /\ Send("create", created, ok)
    /\ remote' = IF ok THEN RemoteCreate(remote, created) ELSE remote
    /\ route' = "/products"
    /\ routeId' = ""

handleCreateProductResume ==
  \E r \in requests :
    /\ r.kind = "create"
    /\ Settle(r, HandleCreateProduct(r.closure, CreateProduct(r.ok, r.data)))

\* The form of the edit page is submitted; the page shows it for the
\* product of the catalog that has the id of the location. handleUpdate of
\* the page calls handleUpdateProduct, which runs up to its await, and then
\* navigates. The backend answers with an error when it does not hold the
\* product.
handleUpdateProduct ==
  \E i \in DOMAIN products, price \in EditPrices, reached \in BOOLEAN :
    LET updated == [products[i] EXCEPT !.price = price]
        ok == reached /\ HasId(remote, updated.id)
    IN /\ route = "/products/:id/edit"
       /\ products[i].id = routeId
       /\ Send("update", updated, ok)
       /\ remote' = IF ok THEN RemoteUpdate(remote, updated) ELSE remote
       /\ route' = "/products"
       /\ routeId' = ""

handleUpdateProductResume ==
  \E r \in requests :
    /\ r.kind = "update"
    /\ Settle(r, HandleUpdateProduct(r.closure, UpdateProduct(r.ok, r.data)))

\* Delete is clicked on a card of the product list, which is shown once
\* loading is over.
handleDeleteProduct ==
  \E i \in DOMAIN products, reached \in BOOLEAN :
    LET ok == reached /\ HasId(remote, products[i].id) IN
    /\ route = "/products"
    /\ ~loading
    /\ Send("delete", products[i], ok)
    /\ remote' = IF ok THEN RemoteDelete(remote, products[i].id) ELSE remote
    /\ UNCHANGED routeVars

handleDeleteProductResume ==
  \E r \in requests :
    /\ r.kind = "delete"
    /\ Settle(r, HandleDeleteProduct(r.closure, DeleteProduct(r.ok, r.data)))

\* The application starts on a browser whose storage holds a cart written
\* by an earlier run: one unit of the first product. The backend holds the
\* two products or none.
CartAtStart == <<[product |-> P1, quantity |-> One]>>

InitCatalog ==
  /\ remote \in ServerLists
  /\ Mount(StoredItem(JSONstringify(CartAtStart)), TRUE)

NextCatalog ==
  \/ load
  \/ navigate
  \/ handleCreateProduct
  \/ handleCreateProductResume
  \/ handleUpdateProduct
  \/ handleUpdateProductResume
  \/ handleDeleteProduct
  \/ handleDeleteProductResume

SpecCatalog == InitCatalog /\ [][NextCatalog]_vars

\* ------------------------------------------------------------------------
\* Adding from the product list while the catalog is edited: the product
\* passed to handleAddToCart is the one the card shows, an entry of the
\* catalog. The storage accepts every write here; refused writes are
\* explored in Spec.
\* ------------------------------------------------------------------------

handleAddToCartFromList ==
  \E i \in DOMAIN products :
    /\ route = "/products"
    /\ ~loading
    /\ QtyCap(cartItems, products[i].id) + One <= MaxQty * One
    /\ SetCartItems(AddToCart(cartItems, products[i]), TRUE)
    /\ lastOp' = Op("add", products[i].id, 0, Len(cartItems))
    /\ UNCHANGED <<products, loading, fetch, wholeInputs, catalogVars,
                   pageVars, routeVars, detailsVars>>

\* The Edit link of a card of the list.
openEdit ==
  \E i \in DOMAIN products :
    /\ route = "/products"
    /\ ~loading
    /\ navigateTo([path |-> "/products/:id/edit", id |-> products[i].id])

NextShop ==
  \/ load
  \/ openEdit
  \/ handleUpdateProduct
  \/ handleUpdateProductResume
  \/ handleAddToCartFromList

SpecShop == InitCatalog /\ [][NextShop]_vars

\* ------------------------------------------------------------------------
\* The cart page and the navigation bar: what they render from the cart,
\* and the controls of a cart row.
\* ------------------------------------------------------------------------

\* Variant: the badge counts units.
cartCountUnits ==
  LET RECURSIVE units(_)
      units(items) ==
        IF items = <<>> THEN 0 ELSE Head(items).quantity + units(Tail(items))
  IN units(cartItems) \div One

\* <NavBar cartCount={cartItems.length} />
cartCount == Len(cartItems)

BadgeShown == cartCount > 0

\* Variant: the quantity is left out of the sum.
RECURSIVE TotalOfPrices(_)
TotalOfPrices(items) ==
  IF items = <<>> THEN 0
  ELSE TotalOfPrices(SubSeq(items, 1, Len(items) - 1))
         + items[Len(items)].product.price

\* items.reduce((sum, item) => sum + item.product.price * item.quantity, 0)
RECURSIVE Total(_)
Total(items) ==
  IF items = <<>> THEN 0
  ELSE Total(SubSeq(items, 1, Len(items) - 1))
         + (items[Len(items)].product.price * items[Len(items)].quantity)
             \div One

EmptyMessage == Len(cartItems) = 0

\* Variant: the decrement button is disabled at zero only.
DecrementDisabledAtZero(item) == item.quantity <= 0

\* disabled={item.quantity <= 1}
DecrementDisabled(item) == item.quantity <= One

\* The + button of a row.
increment ==
  \E i \in DOMAIN cartItems, ok \in BOOLEAN :
    LET item == cartItems[i] IN
    /\ item.quantity + One <= MaxQty * One
    /\ SetCartItems(UpdateCartQuantity(cartItems, item.product.id,
                                       item.quantity + One), ok)
    /\ lastOp' = Op("setQuantity", item.product.id, item.quantity + One,
                    Len(cartItems))
    /\ UNCHANGED <<products, loading, fetch, wholeInputs, catalogVars,
                   pageVars, routeVars, detailsVars>>

\* The - button of a row.
decrement ==
  \E i \in DOMAIN cartItems, ok \in BOOLEAN :
    LET item == cartItems[i] IN
    /\ ~DecrementDisabled(item)
    /\ SetCartItems(UpdateCartQuantity(cartItems, item.product.id,
                                       item.quantity - One), ok)
    /\ lastOp' = Op("setQuantity", item.product.id, item.quantity - One,
                    Len(cartItems))
    /\ UNCHANGED <<products, loading, fetch, wholeInputs, catalogVars,
                   pageVars, routeVars, detailsVars>>

\* The storage is empty, or holds a cart written by an earlier run when the
\* first product cost 5: one unit of it.
P1Old == [P1 EXCEPT !.price = 5 * One]

CartsAtStart == {<<>>, <<[product |-> P1Old, quantity |-> One]>>}

InitCartPage ==
  /\ remote = ServerProducts
  /\ \E cart \in CartsAtStart :
       Mount(IF cart = <<>> THEN NoItem ELSE StoredItem(JSONstringify(cart)),
             TRUE)

NextCartPage ==
  \/ handleAddToCart
  \/ increment
  \/ decrement
  \/ handleRemoveFromCart
  \/ handleClearCart

SpecCartPage == InitCartPage /\ [][NextCartPage]_vars

\* ------------------------------------------------------------------------
\* The products page, shown once the list has arrived. Every change of its
\* state renders it again: the three stages run on the catalog.
\* ------------------------------------------------------------------------

RECURSIVE Catalogs(_)
\* The lists of at most n distinct products of the pool.
Catalogs(n) ==
  IF n = 0 THEN {<<>>}
  ELSE LET shorter == Catalogs(n - 1) IN
       shorter \cup {Append(list, p) : list \in shorter, p \in PagePool}

PageCatalogs ==
  {list \in Catalogs(MaxLen) :
     \A i, j \in DOMAIN list : list[i] = list[j] => i = j}

\* The list of the backend has arrived and the page has rendered it.
InitPage ==
  /\ products \in PageCatalogs
  /\ remote = products
  /\ loading = FALSE
  /\ fetch = "ok"
  /\ cartItems = <<>>
  /\ localStorage = StoredItem(JSONstringify(<<>>))
  /\ saved = NoItem
  /\ saveOk = TRUE
  /\ saveFailures = 0
  /\ alerts = {}
  /\ wholeInputs = TRUE
  /\ lastOp = Op("load", "", 0, 0)
  /\ requests = {}
  /\ calls = 0
  /\ hist = NoHist
  /\ search = ""
  /\ sortOption = ""
  /\ minPrice = ""
  /\ maxPrice = ""
  /\ filteredProducts = FilteredProducts(products, "", "", "", "")
  /\ route = "/products"
  /\ routeId = ""
  /\ detailsProduct = <<>>
  /\ detailsLoading = FALSE
  /\ gets = {}
  /\ visits = 0

\* Variant: the catalog itself is sorted, and shown filtered.
RenderInPlace ==
  /\ products' = SortProducts(products, sortOption')
  /\ filteredProducts' =
       FilteredProducts(products', search', minPrice', maxPrice', sortOption')
  /\ lastOp' = Op("render", "", 0, Len(cartItems))
  /\ alerts' = {}
  /\ UNCHANGED <<loading, cartItems, localStorage, fetch, saved,
                 saveOk, saveFailures, wholeInputs, catalogVars, routeVars,
                 detailsVars>>

Render ==
  /\ filteredProducts' =
       FilteredProducts(products, search', minPrice', maxPrice', sortOption')
  /\ lastOp' = Op("render", "", 0, Len(cartItems))
  /\ alerts' = {}
  /\ UNCHANGED <<products, loading, cartItems, localStorage, fetch, saved,
                 saveOk, saveFailures, wholeInputs, catalogVars, routeVars,
                 detailsVars>>

setSearch ==
  \E value \in SearchInputs :
    /\ search' = value
    /\ UNCHANGED <<sortOption, minPrice, maxPrice>>
    /\ Render

setSortOption ==
  \E value \in SortOptions :
    /\ sortOption' = value
    /\ UNCHANGED <<search, minPrice, maxPrice>>
    /\ Render

setMinPrice ==
  \E value \in PriceInputs :
    /\ minPrice' = value
    /\ UNCHANGED <<search, sortOption, maxPrice>>
    /\ Render

setMaxPrice ==
  \E value \in PriceInputs :
    /\ maxPrice' = value
    /\ UNCHANGED <<search, sortOption, minPrice>>
    /\ Render

\* The Clear Filters button.
clearFilters ==
  /\ minPrice' = ""
  /\ maxPrice' = ""
  /\ sortOption' = ""
  /\ UNCHANGED search
  /\ Render

NextPage ==
  \/ setSearch
  \/ setSortOption
  \/ setMinPrice
  \/ setMaxPrice
  \/ clearFilters

SpecPage == InitPage /\ [][NextPage]_vars

\* ------------------------------------------------------------------------
\* The product details page. Its effect runs when the page is mounted and
\* again when the :id of the location changes while it stays mounted (the
\* same route matches, so the component and its state are kept).
\* ------------------------------------------------------------------------

\* The ids a details location carries: those of the two products and one
\* that no product has.
DetailsIds == {"p1", "p2", "zz"}

\* The component is also written for a location without an id.
MissingId == ""

\* load() of the effect, up to its await: without an id an alert and
\* loading is switched off, otherwise the request is sent.
LoadDetails(id, wasLoading, pending) ==
  /\ visits < MaxVisits
  /\ visits' = visits + 1
  /\ routeId' = id
  /\ IF id = MissingId
     THEN /\ alerts' = {"detailsIdMissing"}
          /\ detailsLoading' = FALSE
          /\ gets' = pending
     ELSE /\ alerts' = {}
          /\ detailsLoading' = wasLoading
          /\ gets' = pending \cup {[seq |-> visits + 1, id |-> id]}
  /\ lastOp' = Op("getCalled", id, visits + 1, Len(cartItems))
  /\ UNCHANGED <<products, loading, cartItems, localStorage, fetch, saved,
                 saveOk, saveFailures, wholeInputs, catalogVars, pageVars>>

\* A details location is opened from another page: the component is
\* mounted with product = null and loading = true, then the effect runs.
openDetails ==
  \E id \in DetailsIds \cup {MissingId} :
    /\ route # "/products/:id"
    /\ route' = "/products/:id"
    /\ detailsProduct' = <<>>
    /\ LoadDetails(id, TRUE, {})

\* The location moves to the details of another id (a step through the
\* browser's history): the state is kept and the effect runs again.
changeDetailsId ==
  \E id \in DetailsIds \ {routeId} :
    /\ route = "/products/:id"
    /\ UNCHANGED <<route, detailsProduct>>
    /\ LoadDetails(id, detailsLoading, gets)

\* A getProduct call settles and load() resumes after its await.
loadDetails ==
  \E g \in gets, reached \in BOOLEAN :
    LET ok == reached /\ HasId(remote, g.id)
        data == IF ok THEN CHOOSE p \in {remote[i] : i \in DOMAIN remote} :
                             p.id = g.id
                ELSE PInvalid
        r == GetProduct(ok, data)
    IN /\ gets' = gets \ {g}
       /\ detailsProduct' = IF r.threw THEN detailsProduct ELSE <<r.data>>
       /\ alerts' = r.alerts \cup
                      (IF r.threw THEN {"detailsLoadFailed"} ELSE {})
       /\ detailsLoading' = FALSE
       /\ lastOp' = Op("getLanded", g.id, IF ok THEN 1 ELSE 0, Len(cartItems))
       /\ UNCHANGED <<products, loading, cartItems, localStorage, fetch, saved,
                      saveOk, saveFailures, wholeInputs, catalogVars, pageVars,
                      routeVars, visits>>

\* The user leaves for the product list: the component is unmounted, and
\* responses that arrive later have no state to set.
leaveDetails ==
  /\ route = "/products/:id"
  /\ route' = "/products"
  /\ routeId' = ""
  /\ detailsProduct' = <<>>
  /\ detailsLoading' = FALSE
  /\ gets' = {}
  /\ alerts' = {}
  /\ lastOp' = Op("navigate", "", 0, Len(cartItems))
  /\ UNCHANGED <<products, loading, cartItems, localStorage, fetch, saved,
                 saveOk, saveFailures, wholeInputs, catalogVars, pageVars,
                 visits>>

\* What the details page renders.
DetailsView ==
  IF detailsLoading THEN "loading"
  ELSE IF detailsProduct = <<>> THEN "notFound" ELSE "product"

NextDetails ==
  \/ openDetails
  \/ changeDetailsId
  \/ loadDetails
  \/ leaveDetails

\* The list has arrived before the user opens a details page.
SpecDetails == InitPage /\ [][NextDetails]_vars

\* ------------------------------------------------------------------------
\* Properties
\* ------------------------------------------------------------------------

Ids(cart) == {cart[i].product.id : i \in DOMAIN cart}

Count(cart, id) == Cardinality({i \in DOMAIN cart : cart[i].product.id = id})

QtyOf(cart, id) ==
  cart[CHOOSE i \in DOMAIN cart : cart[i].product.id = id].quantity

CartOps == {"add", "remove", "setQuantity", "clear"}

\* C1: add(product) on a cart holding the product's id raises that entry's
\* quantity by exactly 1 and keeps the number of entries; otherwise it adds
\* exactly one entry, with quantity 1.
C1_AddIncrementsOrInserts ==
  [][lastOp'.op = "add" =>
       LET id == lastOp'.id IN
       IF id \in Ids(cartItems)
       THEN /\ Len(cartItems') = Len(cartItems)
            /\ Count(cartItems', id) = Count(cartItems, id)
            /\ QtyOf(cartItems', id) = QtyOf(cartItems, id) + One
       ELSE /\ Len(cartItems') = Len(cartItems) + 1
            /\ Count(cartItems', id) = 1
            /\ QtyOf(cartItems', id) = One]_vars

\* An add found its product in the cart at quantity 1: one entry, quantity 2.
C1_Witness ==
  /\ lastOp.op = "add"
  /\ lastOp.len = Len(cartItems)
  /\ Count(cartItems, lastOp.id) = 1
  /\ QtyOf(cartItems, lastOp.id) = 2 * One

\* C2: the cart list holds at most one CartItem per product id.
C2_OneItemPerId == \A id \in Ids(cartItems) : Count(cartItems, id) = 1

\* Both products are in the cart, the second through an add.
C2_Witness ==
  /\ lastOp.op = "add"
  /\ Len(cartItems) = 2
  /\ Ids(cartItems) = ProductIds

AllQuantitiesWhole(cart) ==
  \A i \in DOMAIN cart : IsInteger(cart[i].quantity) /\ cart[i].quantity >= One

\* C3 as stated: every CartItem has an integer quantity >= 1, whatever number
\* setQuantity is called with.
C3_AnyNumber == AllQuantitiesWhole(cartItems)

\* C3 amended: as long as setQuantity has been called with integers only,
\* every CartItem has an integer quantity >= 1.
C3_IntegerInputs == wholeInputs => AllQuantitiesWhole(cartItems)

\* setQuantity with an integer n >= 1 has overwritten an entry's quantity.
C3_Witness ==
  /\ wholeInputs
  /\ lastOp.op = "setQuantity"
  /\ lastOp.n = MaxQty * One
  /\ lastOp.id \in Ids(cartItems)
  /\ QtyOf(cartItems, lastOp.id) = MaxQty * One

\* C4: setQuantity(productId, n) with n <= 0 on a cart that holds productId
\* removes that id and no other from the cart's id set.
C4_NonPositiveRemoves ==
  [][(/\ lastOp'.op = "setQuantity"
      /\ lastOp'.n <= 0
      /\ lastOp'.id \in Ids(cartItems)) =>
       /\ lastOp'.id \notin Ids(cartItems')
       /\ Ids(cartItems') = Ids(cartItems) \ {lastOp'.id}
       /\ Cardinality(Ids(cartItems')) = Cardinality(Ids(cartItems)) - 1]_vars

\* setQuantity with n <= 0 took one of two entries out of the cart.
C4_Witness ==
  /\ lastOp.op = "setQuantity"
  /\ lastOp.n <= 0
  /\ lastOp.len = 2
  /\ Len(cartItems) = 1
  /\ lastOp.id \notin Ids(cartItems)

\* C5: whenever the last storage write succeeded, the stored value is the
\* serialization of the current cart list.
C5_StoredMirrorsCart ==
  saveOk => localStorage = StoredItem(JSONstringify(cartItems))

\* A cart operation was followed by a successful write of a two-entry cart.
C5_Witness ==
  /\ lastOp.op \in CartOps
  /\ saveOk
  /\ Len(cartItems) = 2
  /\ localStorage.present
  /\ Len(localStorage.text) > 2

\* What the claim calls corrupted: a stored value that is not the
\* serialization of a list of CartItems.
IsCartItemList(text) ==
  LET r == JSONparse(text) IN
  /\ r.ok
  /\ \A i \in DOMAIN r.val :
       /\ DOMAIN r.val[i] = {"product", "quantity"}
       /\ DOMAIN r.val[i].product = {"id", "name", "price"}

\* C6: at start, a corrupted stored value gives the empty cart and an alert;
\* an absent value gives the empty cart.
C6_CorruptedResets ==
  lastOp.op = "mount" =>
    /\ (saved.present /\ ~IsCartItemList(saved.text)) =>
         (cartItems = <<>> /\ "cartLoadFailed" \in alerts)
    /\ ~saved.present => cartItems = <<>>

\* C7: a restart after a successful save rehydrates the cart it had before.
C7_RoundTrip ==
  [][(lastOp'.op = "mount" /\ saveOk) => cartItems' = cartItems]_vars

\* A two-entry cart with a non-integer quantity came back from storage.
C7_Witness ==
  /\ lastOp.op = "mount"
  /\ lastOp.len = 2
  /\ Len(cartItems) = 2
  /\ \E i \in DOMAIN cartItems : ~IsInteger(cartItems[i].quantity)
  /\ saved.present

\* C8: clear() empties the cart; the write it triggers stores the empty
\* list, from which a restart rehydrates the empty cart.
C8_ClearEmpties ==
  [][lastOp'.op = "clear" =>
       /\ cartItems' = <<>>
       /\ saveOk' => /\ localStorage' = StoredItem(<<"[", "]">>)
                     /\ InitialCartItems(localStorage') = [cart |-> <<>>, alerts |-> {}]]_vars

\* A non-empty cart was cleared and the empty list written.
C8_Witness ==
  /\ lastOp.op = "clear"
  /\ lastOp.len = 2
  /\ cartItems = <<>>
  /\ saveOk
  /\ localStorage = StoredItem(<<"[", "]">>)

\* C9: when the write a cart operation triggers fails, the user is alerted,
\* the stored value stays as it was and the cart holds the operation's result.
C9_FailedWriteKeepsCart ==
  [][(lastOp'.op \in CartOps /\ ~saveOk') =>
       LET id == lastOp'.id
           n == lastOp'.n IN
       /\ "cartSaveFailed" \in alerts'
       /\ localStorage' = localStorage
       /\ lastOp'.op = "clear" => cartItems' = <<>>
       /\ lastOp'.op = "remove" => Ids(cartItems') = Ids(cartItems) \ {id}
       /\ lastOp'.op = "add" =>
            /\ id \in Ids(cartItems')
            /\ QtyOf(cartItems', id) =
                 (IF id \in Ids(cartItems) THEN QtyOf(cartItems, id) + One ELSE One)
       /\ lastOp'.op = "setQuantity" =>
            IF n <= 0 THEN Ids(cartItems') = Ids(cartItems) \ {id}
            ELSE /\ Ids(cartItems') = Ids(cartItems)
                 /\ id \in Ids(cartItems) => QtyOf(cartItems', id) = n]_vars

\* An add whose write failed: the cart has the new entry, storage does not.
C9_Witness ==
  /\ lastOp.op = "add"
  /\ ~saveOk
  /\ "cartSaveFailed" \in alerts
  /\ Len(cartItems) = lastOp.len + 1
  /\ localStorage # StoredItem(JSONstringify(cartItems))

\* C10: a failed list fetch makes getProducts return [] without throwing:
\* the catalog is empty and loading goes from true to false; loading never
\* returns to true while the application runs, and always becomes false.
C10_LoadingSettles ==
  /\ [][(lastOp'.op = "load" /\ fetch' = "failed") =>
          /\ products' = <<>>
          /\ loading /\ ~loading'
          /\ alerts' = {"listFetchFailed"}]_vars
  /\ [][(~loading /\ lastOp'.op # "mount") => ~loading']_vars
  /\ [](fetch = "pending" => loading)
  /\ (loading ~> ~loading)

\* The list fetch failed: empty catalog, loading off, the client's alert.
C10_Witness ==
  /\ lastOp.op = "load"
  /\ fetch = "failed"
  /\ products = <<>>
  /\ ~loading
  /\ "listFetchFailed" \in alerts

\* ------------------------------------------------------------------------
\* Catalog properties
\* ------------------------------------------------------------------------

CallOps == {"createCalled", "updateCalled", "deleteCalled"}

LandedOps == {"createLanded", "updateLanded", "deleteLanded"}

\* In a step that resumes a catalog handler: the request that was answered.
LandedRequest == CHOOSE r \in requests : r.seq = lastOp'.n

ClientAlert(kind) == kind \o "Failed"

HandlerAlert(kind) ==
  CASE kind = "create" -> "handleCreateFailed"
    [] kind = "update" -> "handleUpdateFailed"
    [] kind = "delete" -> "handleDeleteFailed"

\* C11: when a create, update or delete request fails, the client alerts and
\* throws to the handler; the handler alerts too, skips its catalog update
\* (the catalog is exactly as before) and lets no error out.
C11_FailedRequestKeepsCatalog ==
  [][(lastOp'.op \in LandedOps /\ ~LandedRequest.ok) =>
       /\ products' = products
       /\ alerts' = {ClientAlert(LandedRequest.kind),
                     HandlerAlert(LandedRequest.kind)}
       /\ ~hist'.uncaught]_vars

\* A failed create has been answered after the list arrived: both alerts
\* were raised and the catalog still is the loaded list.
C11_Witness ==
  /\ lastOp.op = "createLanded"
  /\ alerts = {"createFailed", "handleCreateFailed"}
  /\ fetch = "ok"
  /\ products = ServerProducts
  /\ requests = {}

\* C12: a successful request with no other request in flight between its
\* call and its response: create appends the returned product at the end,
\* update replaces exactly the entry with the returned id and keeps the
\* order, delete removes exactly the entries with the deleted id.
C12_LoneRequestApplies ==
  [][(lastOp'.op \in LandedOps /\ LandedRequest.ok /\ LandedRequest.alone) =>
       LET r == LandedRequest
           Other(p) == p.id # r.data.id
       IN CASE r.kind = "create" ->
                 /\ products' = products \o <<r.data>>
                 /\ ~HasId(products, r.data.id)
            [] r.kind = "update" ->
                 /\ HasId(products, r.data.id)
                 /\ Len(products') = Len(products)
                 /\ \A i \in DOMAIN products :
                      /\ products[i].id = r.data.id => products'[i] = r.data
                      /\ products[i].id # r.data.id => products'[i] = products[i]
            [] r.kind = "delete" ->
                 /\ HasId(products, r.data.id)
                 /\ ~HasId(products', r.data.id)
                 /\ products' = SelectSeq(products, Other)]_vars

\* The only request of the run, a create sent after the list arrived, has
\* been answered: the new product is last, after the loaded list.
C12_Witness ==
  /\ lastOp.op = "createLanded"
  /\ calls = 1
  /\ requests = {}
  /\ hist = NoHist
  /\ products = ServerProducts \o <<[NewProduct EXCEPT !.id = FreshId(1)]>>

Products(list) == {list[i] : i \in DOMAIN list}

\* C13: for any interleaving of successful create, update and delete
\* requests (all sent after the startup list arrived), once every response
\* has landed the local catalog holds exactly the products of the remote
\* list.
C13_LocalMatchesRemote ==
  (requests = {} /\ fetch = "ok" /\ ~hist.failed /\ ~hist.early) =>
    Products(products) = Products(remote)

EntryOf(list, id) == CHOOSE p \in Products(list) : p.id = id

\* C14: overlapping updates of one product are all kept in flight (none is
\* cancelled, merged or resent) and may be answered in either order; when a
\* successful update is answered, the catalog entry of its product is its
\* payload, so after both landed the entry is that of the one landed last.
C14_LastLandedUpdateWins ==
  /\ [][(lastOp'.op = "updateLanded" /\ LandedRequest.ok) =>
          /\ HasId(products', lastOp'.id)
          /\ \A i \in DOMAIN products' :
               products'[i].id = lastOp'.id =>
                 products'[i] = LandedRequest.data]_vars
  /\ [][lastOp'.op \in CallOps =>
          /\ Cardinality(requests') = Cardinality(requests) + 1
          /\ {r.seq : r \in requests} \subseteq {r.seq : r \in requests'}]_vars
  /\ [][lastOp'.op \in LandedOps =>
          requests' = requests \ {LandedRequest}]_vars

\* Two updates of one product, both successful, answered in the reverse of
\* the order they were sent in: the catalog holds the payload of the first
\* one sent, the backend that of the second.
C14_Witness ==
  /\ lastOp.op = "updateLanded"
  /\ lastOp.n = 1
  /\ calls = 2
  /\ requests = {}
  /\ ~hist.failed
  /\ HasId(products, lastOp.id)
  /\ HasId(remote, lastOp.id)
  /\ EntryOf(products, lastOp.id).price # EntryOf(remote, lastOp.id).price

CatalogOps == CallOps \cup LandedOps \cup {"load"}

\* C15: no catalog step (a create, update or delete being sent or answered,
\* with success or failure, or the startup list arriving) changes the cart:
\* every CartItem keeps its product snapshot and quantity, also when its
\* product is the one updated or deleted; the stored cart is not rewritten.
C15_CatalogStepsKeepCart ==
  [][lastOp'.op \in CatalogOps =>
       /\ cartItems' = cartItems
       /\ localStorage' = localStorage]_vars

\* The product in the cart has been deleted from the catalog and from the
\* backend; the cart still holds its snapshot and quantity.
C15_Witness ==
  /\ lastOp.op = "deleteLanded"
  /\ lastOp.id = "p1"
  /\ fetch = "ok"
  /\ ~HasId(products, "p1")
  /\ ~HasId(remote, "p1")
  /\ cartItems = CartAtStart
  /\ localStorage = StoredItem(JSONstringify(CartAtStart))

DistinctIds(list) ==
  \A i, j \in DOMAIN list : list[i].id = list[j].id => i = j

\* C16: the catalog never holds two products with the same id, whatever the
\* interleaving of the startup list and the create, update and delete
\* responses; the backend's list has distinct ids and every created product
\* gets a new one.
C16_CatalogIdsDistinct ==
  /\ DistinctIds(remote)
  /\ DistinctIds(products)

\* A create overlapped an update and was answered after it: the catalog
\* holds the loaded products and the created one.
C16_Witness ==
  /\ lastOp.op = "createLanded"
  /\ lastOp.n = 1
  /\ calls = 2
  /\ requests = {}
  /\ Len(products) = 3
  /\ HasId(products, FreshId(1))

\* ------------------------------------------------------------------------
\* Products page properties
\* ------------------------------------------------------------------------

\* Two characters are the same letter in either case, or the same character.
SameLetter(c, d) ==
  \/ c = d
  \/ \E i \in DOMAIN UpperCase : {c, d} = {UpperCase[i], LowerCase[i]}

\* The query occurs in the name at some offset, letter case ignored.
ContainsIgnoringCase(name, query) ==
  \E offset \in 0..(Len(Chars(name)) - Len(Chars(query))) :
    \A j \in DOMAIN Chars(query) :
      SameLetter(Chars(name)[offset + j], Chars(query)[j])

NoPriceBounds == minPrice = "" /\ maxPrice = ""

\* C17: the name filter keeps exactly the products whose name contains the
\* query as a substring, letter case ignored: nothing else is shown, and
\* with no price bound every such product is shown; the empty query keeps
\* every product; "app" keeps "Apple Watch" and drops "Banana".
C17_NameFilter ==
  /\ \A p \in Products(filteredProducts) :
       p \in Products(products) /\ ContainsIgnoringCase(p.name, search)
  /\ NoPriceBounds =>
       \A p \in Products(products) :
         ContainsIgnoringCase(p.name, search) =>
           p \in Products(filteredProducts)
  /\ (NoPriceBounds /\ search = "") =>
       Products(filteredProducts) = Products(products)
  /\ (NoPriceBounds /\ search = "app") =>
       /\ P1 \in Products(products) => P1 \in Products(filteredProducts)
       /\ P2 \notin Products(filteredProducts)

\* The query "APP" on a catalog with "Banana", "Apple Watch" and "banana":
\* only "Apple Watch" is shown.
C17_Witness ==
  /\ search = "APP"
  /\ products = <<P2, P1, P3>>
  /\ filteredProducts = <<P1>>

\* The price is within the bounds typed into the two boxes, the bounds
\* included; an empty box is no bound.
InRange(price) ==
  /\ minPrice # "" => Number(minPrice) <= price
  /\ maxPrice # "" => price <= Number(maxPrice)

\* C18: the price filter keeps exactly the products with min <= price <= max:
\* nothing else is shown, and with no query every such product is shown; an
\* empty bound is no bound, two empty bounds keep every product, and
\* min > max keeps none.
C18_PriceFilter ==
  /\ \A p \in Products(filteredProducts) :
       p \in Products(products) /\ InRange(p.price)
  /\ search = "" =>
       \A p \in Products(products) :
         InRange(p.price) => p \in Products(filteredProducts)
  /\ (search = "" /\ NoPriceBounds) =>
       Products(filteredProducts) = Products(products)
  /\ (minPrice # "" /\ maxPrice # "" /\ Number(minPrice) > Number(maxPrice)) =>
       filteredProducts = <<>>

\* Bounds 10 and 15 on prices 30, 10, 10: the two products at the lower
\* bound are shown, the one above the upper bound is not.
C18_Witness ==
  /\ search = ""
  /\ sortOption = ""
  /\ minPrice = NumToStr(10 * One)
  /\ maxPrice = NumToStr(15 * One)
  /\ products = <<P1, P2, P3>>
  /\ filteredProducts = <<P2, P3>>

Reverse(list) == [i \in DOMAIN list |-> list[Len(list) + 1 - i]]

IsPermutation(a, b) ==
  /\ Len(a) = Len(b)
  /\ \A x \in Products(a) \cup Products(b) :
       Cardinality({i \in DOMAIN a : a[i] = x}) =
         Cardinality({i \in DOMAIN b : b[i] = x})

\* What the render would show under another sort option.
Shown(option) == FilteredProducts(products, search, minPrice, maxPrice, option)

\* The position of a shown product in the catalog.
CatalogIndex(p) == CHOOSE i \in DOMAIN products : products[i] = p

\* Products of equal price are shown in catalog order.
TiesInCatalogOrder ==
  \A i, j \in DOMAIN filteredProducts :
    (i < j /\ filteredProducts[i].price = filteredProducts[j].price) =>
      CatalogIndex(filteredProducts[i]) < CatalogIndex(filteredProducts[j])

DistinctPrices(list) ==
  \A i, j \in DOMAIN list : list[i].price = list[j].price => i = j

PriceAscending ==
  sortOption = "price-asc" =>
    /\ IsPermutation(filteredProducts, Shown(""))
    /\ \A i, j \in DOMAIN filteredProducts :
         i < j => filteredProducts[i].price <= filteredProducts[j].price

\* C19 as claimed: price ascending shows a permutation of the filtered
\* products in non-decreasing price order, and price descending shows the
\* reverse of the ascending result, for every list, equal prices included.
C19_DescendingReversesAscending ==
  /\ PriceAscending
  /\ sortOption = "price-desc" =>
       filteredProducts = Reverse(Shown("price-asc"))

\* C19, amended: price ascending shows a permutation in non-decreasing price
\* order, price descending a permutation in non-increasing price order;
\* under both, products of equal price stay in catalog order, so descending
\* is the reverse of ascending when the shown prices are pairwise distinct.
C19_PriceSort ==
  /\ PriceAscending
  /\ sortOption = "price-desc" =>
       /\ IsPermutation(filteredProducts, Shown(""))
       /\ \A i, j \in DOMAIN filteredProducts :
            i < j => filteredProducts[i].price >= filteredProducts[j].price
       /\ DistinctPrices(filteredProducts) =>
            filteredProducts = Reverse(Shown("price-asc"))
  /\ sortOption \in {"price-asc", "price-desc"} => TiesInCatalogOrder

\* Price descending on prices 10, 30, 10: the two products at 10 are shown
\* in catalog order, which is not the reverse of the ascending result.
C19_Witness ==
  /\ sortOption = "price-desc"
  /\ search = ""
  /\ NoPriceBounds
  /\ products = <<P2, P1, P3>>
  /\ filteredProducts = <<P1, P2, P3>>
  /\ filteredProducts # Reverse(Shown("price-asc"))

\* Values of the sort state that name no option.
OtherSortValues == {"newest", "price", "NAME-ASC"}

InCatalogOrder(list) ==
  \A i, j \in DOMAIN list :
    i < j => CatalogIndex(list[i]) < CatalogIndex(list[j])

\* C20: a render applies one of the five sort options. With none the
\* filtered products are shown in catalog order; name ascending and name
\* descending show a permutation of them that is non-decreasing and
\* non-increasing under the name comparison; a value that is none of the
\* four named options sorts nothing.
C20_SortModes ==
  /\ sortOption \in SortOptions
  /\ sortOption = "" => InCatalogOrder(filteredProducts)
  /\ sortOption = "name-asc" =>
       /\ IsPermutation(filteredProducts, Shown(""))
       /\ \A i, j \in DOMAIN filteredProducts :
            i < j => LocaleCompare(filteredProducts[i].name,
                                   filteredProducts[j].name) <= 0
  /\ sortOption = "name-desc" =>
       /\ IsPermutation(filteredProducts, Shown(""))
       /\ \A i, j \in DOMAIN filteredProducts :
            i < j => LocaleCompare(filteredProducts[i].name,
                                   filteredProducts[j].name) >= 0
  /\ \A other \in OtherSortValues :
       Shown(other) = Shown("") /\ InCatalogOrder(Shown(other))

\* Name ascending on "Banana", "Apple Watch", "banana": "Apple Watch",
\* then "banana" before "Banana".
C20_Witness ==
  /\ sortOption = "name-asc"
  /\ search = ""
  /\ NoPriceBounds
  /\ products = <<P2, P1, P3>>
  /\ filteredProducts = <<P1, P3, P2>>

\* ------------------------------------------------------------------------
\* Details, edit and create page properties
\* ------------------------------------------------------------------------

\* C21 (details page): once no request is pending the page has left its
\* loading state; it shows a product only if the last request succeeded
\* and that product is the one of the location, and after a failed request
\* (or without an id) it shows the not-found message.
C21_DetailsFallback ==
  (route = "/products/:id" /\ gets = {}) =>
    /\ ~detailsLoading
    /\ DetailsView = "product" =>
         lastOp.op = "getLanded" /\ lastOp.n = 1 /\
         detailsProduct[1].id = routeId
    /\ (lastOp.op = "getLanded" /\ lastOp.n = 0) => DetailsView = "notFound"
    /\ routeId = MissingId => DetailsView = "notFound"

\* C22: on the create page the redirect to the product list happens after
\* the product has been saved: the step that submits the form leaves the
\* create page only with the new product in the catalog.
C22_RedirectAfterSave ==
  [][(lastOp'.op = "createCalled" /\ route' = "/products") =>
       HasId(products', lastOp'.id)]_vars

\* C23: a create submitted while the startup list is still loading does not
\* discard loaded products: whichever response lands first, once both have
\* landed the catalog holds every product of the backend's list, the
\* created one included.
C23_CreateDuringLoadKeepsList ==
  (hist.early /\ ~hist.failed /\ calls = 1 /\ requests = {} /\ fetch = "ok") =>
    Products(remote) \subseteq Products(products)

\* ------------------------------------------------------------------------
\* Cart frame properties
\* ------------------------------------------------------------------------

\* C24: setQuantity(productId, n) with n > 0 writes n into the entry with
\* that id and changes nothing else: the other entries, every product
\* snapshot and the order are kept; without such an entry the cart is
\* unchanged and nothing is inserted.
C24_SetQuantityFrame ==
  [][(lastOp'.op = "setQuantity" /\ lastOp'.n > 0) =>
       /\ Len(cartItems') = Len(cartItems)
       /\ \A i \in DOMAIN cartItems :
            /\ cartItems'[i].product = cartItems[i].product
            /\ cartItems'[i].quantity =
                 IF cartItems[i].product.id = lastOp'.id THEN lastOp'.n
                 ELSE cartItems[i].quantity
       /\ lastOp'.id \notin Ids(cartItems) => cartItems' = cartItems]_vars

\* setQuantity("p2", 2) on a cart with p1 and p2, each at 1: p1 is first
\* and still at 1, p2 second and at 2.
C24_Witness ==
  /\ lastOp = Op("setQuantity", "p2", 2 * One, 2)
  /\ cartItems = <<[product |-> P1, quantity |-> One],
                   [product |-> P2, quantity |-> 2 * One]>>

\* C25: remove(productId) deletes exactly the entries with that id and
\* keeps every other entry, its quantity and the relative order; on a cart
\* without the id the cart is unchanged; removing again changes nothing.
C25_RemoveExactly ==
  [][lastOp'.op = "remove" =>
       LET kept == {i \in DOMAIN cartItems :
                      cartItems[i].product.id # lastOp'.id}
       IN /\ Len(cartItems') = Cardinality(kept)
          /\ \A i \in kept :
               cartItems'[Cardinality({j \in kept : j <= i})] = cartItems[i]
          /\ lastOp'.id \notin Ids(cartItems) => cartItems' = cartItems
          /\ RemoveFromCart(cartItems', lastOp'.id) = cartItems']_vars

\* remove("p1") on a cart with p1 then p2 at quantity 2: p2 is left, at 2.
C25_Witness ==
  /\ lastOp = Op("remove", "p1", 0, 2)
  /\ cartItems = <<[product |-> P2, quantity |-> 2 * One]>>

\* C26: add(product) on a cart that holds an entry with the product's id
\* keeps the snapshot stored in that entry, also when the product passed
\* has another name or price (the catalog was edited): only that entry's
\* quantity changes. A new entry is appended at the end and the existing
\* entries keep their positions.
C26_AddKeepsSnapshot ==
  [][lastOp'.op = "add" =>
       IF lastOp'.id \in Ids(cartItems)
       THEN /\ Len(cartItems') = Len(cartItems)
            /\ \A i \in DOMAIN cartItems :
                 /\ cartItems'[i].product = cartItems[i].product
                 /\ cartItems[i].product.id # lastOp'.id =>
                      cartItems'[i] = cartItems[i]
       ELSE /\ Len(cartItems') = Len(cartItems) + 1
            /\ SubSeq(cartItems', 1, Len(cartItems)) = cartItems
            /\ cartItems'[Len(cartItems')].product.id = lastOp'.id]_vars

\* The first product, in the cart with its price at start, was added again
\* from the list after its price had been edited: the entry has quantity 2
\* and still the old snapshot.
C26_Witness ==
  /\ lastOp.op = "add"
  /\ lastOp.id = "p1"
  /\ HasId(products, "p1")
  /\ EntryOf(products, "p1").price # P1.price
  /\ cartItems = <<[product |-> P1, quantity |-> 2 * One]>>

\* ------------------------------------------------------------------------
\* Cart page and navigation bar
\* ------------------------------------------------------------------------

C28_CountIsEntries ==
  /\ [](/\ cartCount = Cardinality(DOMAIN cartItems)
        /\ BadgeShown <=> cartItems # <<>>)
  /\ [][(\/ lastOp'.op = "add" /\ lastOp'.id \in Ids(cartItems)
         \/ lastOp'.op = "setQuantity" /\ lastOp'.n > 0)
          => cartCount' = cartCount]_vars

\* Two units of one product: the count is 1 and the badge is shown.
C28_Witness ==
  /\ lastOp = Op("add", "p1", 0, 1)
  /\ cartItems = <<[product |-> P1Old, quantity |-> 2 * One]>>
  /\ cartCount = 1
  /\ BadgeShown

\* Sum of price times quantity over the rows in a set of positions.
RECURSIVE SumOver(_, _)
SumOver(items, rows) ==
  IF rows = {} THEN 0
  ELSE LET i == CHOOSE j \in rows : TRUE IN
       (items[i].product.price * items[i].quantity) \div One
         + SumOver(items, rows \ {i})

SnapshotPrice(items, id) ==
  (CHOOSE item \in {items[i] : i \in DOMAIN items} :
     item.product.id = id).product.price

\* C29: the total of the cart page is the sum over the cart entries of
\* snapshot price times quantity, 0 for the empty cart; the empty-cart
\* message is shown exactly when the list has no entries; each add and each
\* increment changes the total by the snapshot price of the entry.
C29_TotalOfSnapshots ==
  /\ [](/\ Total(cartItems) = SumOver(cartItems, DOMAIN cartItems)
        /\ cartItems = <<>> => Total(cartItems) = 0
        /\ EmptyMessage <=> cartItems = <<>>)
  /\ [][/\ lastOp'.op = "add" =>
             Total(cartItems') =
               Total(cartItems) + SnapshotPrice(cartItems', lastOp'.id)
        /\ (/\ lastOp'.op = "setQuantity"
            /\ lastOp'.id \in Ids(cartItems)
            /\ lastOp'.n = QtyCap(cartItems, lastOp'.id) + One) =>
             Total(cartItems') =
               Total(cartItems) + SnapshotPrice(cartItems, lastOp'.id)]_vars

\* The first product, stored at price 5, was added at price 30 and a second
\* product incremented: 2 x 5 + 2 x 10.
C29_Witness ==
  /\ lastOp = Op("setQuantity", "p2", 2 * One, 2)
  /\ cartItems = <<[product |-> P1Old, quantity |-> 2 * One],
                   [product |-> P2, quantity |-> 2 * One]>>
  /\ Total(cartItems) = 30 * One

\* ------------------------------------------------------------------------
\* The pipeline as a derivation
\* ------------------------------------------------------------------------

Occurrences(list, p) == Cardinality({i \in DOMAIN list : list[i] = p})

\* C30: the list shown is a sub-multiset of the catalog (no product added,
\* duplicated or altered), the catalog of the application state is never
\* reordered or modified by a render in any sort mode, and the pipeline run
\* on its own output with the same query, bounds and sort mode returns that
\* output.
C30_PipelineIsPure ==
  /\ [](/\ \A i \in DOMAIN filteredProducts :
             Occurrences(filteredProducts, filteredProducts[i])
               <= Occurrences(products, filteredProducts[i])
        /\ FilteredProducts(filteredProducts, search, minPrice, maxPrice,
                            sortOption) = filteredProducts)
  /\ [][products' = products]_vars

\* A render that dropped a product and shows two others in the opposite
\* order of the catalog.
C30_Witness ==
  /\ lastOp.op = "render"
  /\ sortOption # ""
  /\ Len(filteredProducts) < Len(products)
  /\ \E i, j \in DOMAIN products :
       /\ i < j
       /\ \E k, l \in DOMAIN filteredProducts :
            k > l /\ filteredProducts[k] = products[i]
                  /\ filteredProducts[l] = products[j]

====
